---- MODULE Spec2Model ----
(***************************************************************************)
(* The conversational command engine of the Icinga Slack bot:              *)
(* chat_with_user (i2_slack_modules/slack_commands.py) as a state machine  *)
(* over the conversation store, one action per handled chat message.       *)
(*                                                                         *)
(* Representation                                                          *)
(*   - Python None is the empty tuple None, a set value x is Some(x).      *)
(*   - A string is the list of its space separated words; the empty string *)
(*     is the empty list, and "".split(" ") is the list holding one empty  *)
(*     word, as in Python.                                                 *)
(*   - Timestamps are integers (seconds).                                  *)
(***************************************************************************)
EXTENDS Integers, Sequences, FiniteSets, TLC

VARIABLES
    conversations,   \* the store: user id -> None | Some(conversation)
    now,             \* datetime.now().timestamp()
    turns,           \* number of chat messages handled so far
    ticks,           \* number of clock advances so far
    chat_user_id,    \* user of the message handled last
    chat_message,    \* words of the message handled last
    before,          \* store entry of that user when the handling began
    parsed,          \* None | Some(conversation as it stood after the parse stages)
    response,        \* what the handling returned
    calls,           \* backend calls issued by the handling, in order
    handled_at,      \* the clock when the message was handled
    backend,         \* what the backend answered during the handling
    final,           \* None | Some(the conversation object when the handling ended)
    inflight,        \* handlings the scheduler has begun and not yet completed
    status           \* the status command run last: its inputs and its response

vars == <<conversations, now, turns, ticks, chat_user_id, chat_message,
          before, parsed, response, calls, handled_at, backend, final, inflight,
          status>>

----------------------------------------------------------------------------
(* Bounds of the model *)

MaxEvents == 3       \* chat events the scheduler takes up in one run
MaxTurns == 3        \* chat messages handled in one run
MaxTicks == 1        \* clock advances in one run
StartTime == 1000    \* the clock at start

(* Program constants *)

Grace == 60          \* seconds an end date has to lie in the future
ObjectsShown == 10   \* objects listed by name in the confirmation summary
NeverExpires == 0 - 1  \* end_date sentinel written for "never"/"infinite"

Users == {"U1"}              \* the user whose conversation is followed in depth
UserIds == {"U1", "U2"}      \* the keys of the store

----------------------------------------------------------------------------
(* Optional values *)

None == <<>>
Some(x) == <<x>>
IsSet(o) == o # <<>>
Get(o) == o[1]

(* Strings as word lists *)

Join(words) == IF words = <<"">> THEN <<>> ELSE words
Split(str) == IF str = <<>> THEN <<"">> ELSE str
Contains(words, w) == \E i \in 1..Len(words) : words[i] = w
IndexOf(words, w) ==
    CHOOSE i \in 1..Len(words) :
        words[i] = w /\ \A j \in 1..(i - 1) : words[j] # w
From(words, i) == SubSeq(words, i, Len(words))
Min(a, b) == IF a < b THEN a ELSE b

(* Word classes the code tests for *)

AckWords == {"ack"}
DowntimeWords == {"dt"}
YesWords == {"y"}
NoWords == {"n", "never"}
NeverWords == {"never"}
DateWords == {"d1", "d2"}

StartsWithAck(w) == w \in AckWords
StartsWithDowntime(w) == w \in DowntimeWords
StartsWithY(w) == w \in YesWords
StartsWithN(w) == w \in NoWords

(* Relative date parser: the leading date expression of the text, read    *)
(* relative to the current time, and the text after the consumed span.    *)
DateOffset(w) == IF w = "d1" THEN Grace ELSE 2 * Grace

parse_relative_date(str, t) ==
    IF str # <<>> /\ str[1] \in DateWords
    THEN Some([dt |-> t + DateOffset(str[1]), rest |-> Tail(str)])
    ELSE None

ts_to_date(ts) == <<"date", ts>>

----------------------------------------------------------------------------
(* Conversation *)

SlackConversation ==
    [command |-> "None",
     filter |-> None,
     filter_result |-> None,
     object_type |-> "None",
     start_date |-> None,
     end_date |-> None,
     start_date_parsing_failed |-> None,
     end_date_parsing_failed |-> None,
     description |-> None,
     confirmation_sent |-> FALSE,
     confirmed |-> FALSE,
     canceled |-> FALSE]

----------------------------------------------------------------------------
(* Responses and backend calls *)

Resp(kind, cls, text, detail) ==
    [kind |-> kind, cls |-> cls, text |-> text, detail |-> detail]

NoResponse == Resp("none", "None", "", None)
Raised(what) == Resp("exception", what, "", None)

Call(op, object_type, filters, names, comment, start_time, end_time, duration, expiry) ==
    [op |-> op, object_type |-> object_type, filters |-> filters, names |-> names,
     comment |-> comment, start_time |-> start_time, end_time |-> end_time,
     duration |-> duration, expiry |-> expiry]

QueryCall(object_type, state_filter, names) ==
    Call("get_i2_object", object_type, state_filter, Some(names),
         None, None, None, None, None)

(* Monitoring objects as the backend reports them *)
Object(object_type, name, state, acknowledgement) ==
    [name |-> name,
     host_name |-> IF object_type = "Service" THEN Some("h") ELSE None,
     state |-> state,
     acknowledgement |-> acknowledgement]

(* What the backend holds for a name filter: nothing, an open and an      *)
(* acknowledged problem, or one healthy object.                           *)
Inventory(object_type) ==
    { <<>>,
      <<Object(object_type, "a", 1, 0), Object(object_type, "b", 2, 1)>> }

RequestResponse(resp, error) == [response |-> resp, error |-> error]

(* A list query either fails or returns the objects that pass the state   *)
(* filter ("host.state != 0" / "service.state != 0" for ACK, none for     *)
(* DOWNTIME).                                                             *)
get_i2_object(failed, matching, state_filter) ==
    IF failed
    THEN RequestResponse(<<>>, Some("request failed"))
    ELSE RequestResponse(
             IF state_filter = <<>> THEN matching
             ELSE SelectSeq(matching, LAMBDA o : o.state # 0),
             None)

BackendAnswers(object_type) ==
    [failed : {TRUE}, matching : {<<>>}] \cup
    [failed : {FALSE}, matching : Inventory(object_type)]

NoAnswer == [failed |-> FALSE, matching |-> <<>>]

----------------------------------------------------------------------------
(* Variant: the command word is left in the message *)
ParseCommandKeepsWord(c, cma) ==
    IF c.command # "None"
    THEN [recognized |-> TRUE, c |-> c, cma |-> cma]
    ELSE IF StartsWithAck(cma[1])
    THEN [recognized |-> TRUE, c |-> [c EXCEPT !.command = "ACK"], cma |-> cma]
    ELSE IF StartsWithDowntime(cma[1])
    THEN [recognized |-> TRUE, c |-> [c EXCEPT !.command = "DOWNTIME"], cma |-> cma]
    ELSE [recognized |-> FALSE, c |-> c, cma |-> cma]

(* chat_with_user, lines 414-426: command recognition *)
ParseCommand(c, cma) ==
    IF c.command # "None"
    THEN [recognized |-> TRUE, c |-> c, cma |-> cma]
    ELSE IF StartsWithAck(cma[1])
    THEN [recognized |-> TRUE, c |-> [c EXCEPT !.command = "ACK"], cma |-> Tail(cma)]
    ELSE IF StartsWithDowntime(cma[1])
    THEN [recognized |-> TRUE, c |-> [c EXCEPT !.command = "DOWNTIME"], cma |-> Tail(cma)]
    ELSE [recognized |-> FALSE, c |-> c, cma |-> cma]

(* Variant: the second word is taken whatever it is *)
FilterWordsTakesTwo(cma) ==
    LET rest == Tail(cma)
    IN IF Len(rest) >= 1
       THEN [filter_list |-> <<cma[1], rest[1]>>, cma |-> Tail(rest)]
       ELSE [filter_list |-> <<cma[1]>>, cma |-> rest]

(* lines 436-441: one filter word, and a second one *)
FilterWords(cma) ==
    LET rest == Tail(cma)
    IN IF Len(rest) = 1 \/ (Len(rest) > 1 /\ rest[1] \notin {"from", "until"})
       THEN [filter_list |-> <<cma[1], rest[1]>>, cma |-> Tail(rest)]
       ELSE [filter_list |-> <<cma[1]>>, cma |-> rest]

(* lines 428-446 *)
ParseFilter(c, cma) ==
    IF c.filter = None /\ Len(cma) # 0
    THEN LET f == FilterWords(cma)
         IN [c |-> [c EXCEPT !.filter = Some(f.filter_list)], cma |-> f.cma]
    ELSE [c |-> c, cma |-> cma]

(* Variant: the objects are looked up again although they are known *)
NeedsObjectsAgain(c) ==
    IsSet(c.filter) /\ Get(c.filter) # <<>>

(* line 449 *)
NeedsObjects(c) ==
    IsSet(c.filter) /\ Get(c.filter) # <<>> /\ c.filter_result = None

(* lines 452-456 *)
StateFilter(c, object_type) ==
    IF c.command = "ACK"
    THEN IF object_type = "Host" THEN <<"host.state != 0">> ELSE <<"service.state != 0">>
    ELSE <<>>

(* Variant: a failed Host query counts as a query without matches *)
QueryObjectsFailureAsEmpty(c, hostAnswer, serviceAnswer) ==
    LET names == Get(c.filter)
        hq == QueryCall("Host", StateFilter(c, "Host"), names)
        sq == QueryCall("Service", StateFilter(c, "Service"), names)
        hr == get_i2_object(hostAnswer.failed, hostAnswer.matching, StateFilter(c, "Host"))
        sr == get_i2_object(serviceAnswer.failed, serviceAnswer.matching,
                            StateFilter(c, "Service"))
    IN IF Len(names) = 1
       THEN IF Len(hr.response) = 0
            THEN [object_type |-> "Service", i2_result |-> sr, calls |-> <<hq, sq>>]
            ELSE [object_type |-> "Host", i2_result |-> hr, calls |-> <<hq>>]
       ELSE [object_type |-> "Service", i2_result |-> sr, calls |-> <<sq>>]

(* lines 458-471: which queries are made, and the result that counts *)
QueryObjects(c, hostAnswer, serviceAnswer) ==
    LET names == Get(c.filter)
        hq == QueryCall("Host", StateFilter(c, "Host"), names)
        sq == QueryCall("Service", StateFilter(c, "Service"), names)
        hr == get_i2_object(hostAnswer.failed, hostAnswer.matching, StateFilter(c, "Host"))
        sr == get_i2_object(serviceAnswer.failed, serviceAnswer.matching,
                            StateFilter(c, "Service"))
    IN IF Len(names) = 1
       THEN IF hr.error = None /\ Len(hr.response) = 0
            THEN [object_type |-> "Service", i2_result |-> sr, calls |-> <<hq, sq>>]
            ELSE [object_type |-> "Host", i2_result |-> hr, calls |-> <<hq>>]
       ELSE [object_type |-> "Service", i2_result |-> sr, calls |-> <<sq>>]

(* Variant: acknowledged objects are not sorted out *)
ActionableKeepsAcknowledged(c, found) == found

(* lines 488-502: the objects the action may be applied to *)
Actionable(c, found) ==
    IF c.command = "DOWNTIME" /\ Len(found) > 0
    THEN found
    ELSE SelectSeq(found, LAMBDA o : o.acknowledgement = 0)

(* lines 448-510 *)
ResolveFilter(c, hostAnswer, serviceAnswer) ==
    IF ~NeedsObjects(c)
    THEN [c |-> c, calls |-> <<>>, error |-> None]
    ELSE LET q == QueryObjects(c, hostAnswer, serviceAnswer)
             usable == Actionable(c, q.i2_result.response)
         IN IF IsSet(q.i2_result.error)
            THEN [c |-> c, calls |-> q.calls, error |-> q.i2_result.error]
            ELSE IF Len(usable) > 0
            THEN [c |-> [c EXCEPT !.filter_result = Some(usable),
                                  !.object_type = q.object_type],
                  calls |-> q.calls, error |-> None]
            ELSE [c |-> c, calls |-> q.calls, error |-> None]

----------------------------------------------------------------------------
(* lines 512-543: start of a downtime.  raised: cma[0] read on an empty  *)
(* list (line 538).                                                         *)
ParseStartDate(c, cma, t) ==
    IF ~(c.command = "DOWNTIME" /\ c.start_date = None /\ Len(cma) # 0)
    THEN [c |-> c, cma |-> cma, raised |-> FALSE]
    ELSE LET afterFrom == IF Contains(cma, "from")
                          THEN From(cma, IndexOf(cma, "from") + 1)
                          ELSE cma
             hasUntil == Contains(afterFrom, "until")
             string_parse == IF hasUntil
                             THEN Join(SubSeq(afterFrom, 1, IndexOf(afterFrom, "until") - 1))
                             ELSE Join(afterFrom)
             rest == IF hasUntil
                     THEN From(afterFrom, IndexOf(afterFrom, "until"))
                     ELSE afterFrom
             start_date_data == parse_relative_date(string_parse, t)
         IN IF IsSet(start_date_data)
            THEN IF rest = <<>>
                 THEN [c |-> [c EXCEPT !.start_date = Some(Get(start_date_data).dt)],
                       cma |-> rest, raised |-> TRUE]
                 ELSE [c |-> [c EXCEPT !.start_date = Some(Get(start_date_data).dt)],
                       cma |-> IF rest[1] # "until"
                               THEN Split(Get(start_date_data).rest)
                               ELSE rest,
                       raised |-> FALSE]
            ELSE [c |-> [c EXCEPT !.start_date_parsing_failed = Some(string_parse)],
                  cma |-> rest, raised |-> FALSE]

(* lines 545-575: end date or expiry.  raised: cma[0] read on an empty    *)
(* list (line 555).                                                         *)
ParseEndDate(c, cma, t) ==
    IF ~(c.end_date = None /\ Len(cma) # 0)
    THEN [c |-> c, cma |-> cma, raised |-> FALSE]
    ELSE LET afterUntil == IF Contains(cma, "until")
                           THEN From(cma, IndexOf(cma, "until") + 1)
                           ELSE cma
             string_parse == Join(afterUntil)
             end_date_data == parse_relative_date(string_parse, t)
         IN IF afterUntil = <<>>
            THEN [c |-> c, cma |-> afterUntil, raised |-> TRUE]
            ELSE IF afterUntil[1] \in NeverWords
            THEN [c |-> [c EXCEPT !.end_date = Some(NeverExpires)],
                  cma |-> Tail(afterUntil), raised |-> FALSE]
            ELSE IF IsSet(end_date_data)
            THEN [c |-> [c EXCEPT !.end_date = Some(Get(end_date_data).dt)],
                  cma |-> Split(Get(end_date_data).rest), raised |-> FALSE]
            ELSE [c |-> [c EXCEPT !.end_date_parsing_failed = Some(string_parse)],
                  cma |-> afterUntil, raised |-> FALSE]

(* lines 577-585 *)
ParseDescription(c, cma) ==
    IF c.description = None /\ Len(cma) # 0 /\ Join(cma) # <<>>
    THEN [c |-> [c EXCEPT !.description = Some(Join(cma))], cma |-> <<>>]
    ELSE [c |-> c, cma |-> cma]

----------------------------------------------------------------------------
(* Variant: the 60 seconds are left out of the comparison *)
EndDateRejectedNoGrace(end_date, t) ==
    end_date # 0 /\ end_date < t

(* line 649: the end date lies (almost) in the past *)
EndDateRejected(end_date, t) ==
    end_date # 0 /\ end_date - Grace < t

(* Variant: the two dates are compared the wrong way round *)
StartAfterEndSwapped(c) ==
    c.command = "DOWNTIME" /\ Get(c.end_date) > Get(c.start_date)

(* line 660 *)
StartAfterEnd(c) ==
    c.command = "DOWNTIME" /\ Get(c.start_date) > Get(c.end_date)

Say(kind, text, detail) == Resp(kind, "SlackResponse", text, detail)

(* Variant: the rejected end date takes the description with it *)
ClearEndDateAndDescription(c) == [c EXCEPT !.end_date = None, !.description = None]

(* line 655 *)
ClearEndDate(c) == [c EXCEPT !.end_date = None]

(* line 666 *)
ClearStartDate(c) == [c EXCEPT !.start_date = None]

(* lines 587-675: ask for what is missing, reject invalid dates.          *)
(* returned is FALSE when the code falls through to the confirmation.     *)
AskMissing(c, t) ==
    IF c.filter = None
    THEN [returned |-> TRUE, c |-> c,
          resp |-> Say("ask_filter",
                       IF c.command = "ACK" THEN "What do you want acknowledge?"
                       ELSE "What do you want to set a downtime for?", None)]
    ELSE IF c.filter_result = None
    THEN [returned |-> TRUE, c |-> [c EXCEPT !.filter = None],
          resp |-> Say("not_found",
                       IF c.command = "ACK"
                       THEN "Sorry, I was not able to find any problematic hosts or services"
                       ELSE "Sorry, I was not able to find any hosts or services",
                       c.filter)]
    ELSE IF c.command = "DOWNTIME" /\ c.start_date = None
    THEN [returned |-> TRUE, c |-> c,
          resp |-> IF c.start_date_parsing_failed = None
                      \/ Get(c.start_date_parsing_failed) = <<>>
                   THEN Say("ask_start", "When should the downtime start?", None)
                   ELSE Say("start_failed",
                            "Sorry, I was not able to understand the start date",
                            c.start_date_parsing_failed)]
    ELSE IF c.end_date = None
    THEN [returned |-> TRUE, c |-> c,
          resp |-> IF c.end_date_parsing_failed = None
                      \/ Get(c.end_date_parsing_failed) = <<>>
                   THEN Say("ask_end",
                            IF c.command = "ACK"
                            THEN "When should the acknowledgement expire? Or never?"
                            ELSE "When should the downtime end?", None)
                   ELSE Say("end_failed",
                            "Sorry, I was not able to understand the end date",
                            c.end_date_parsing_failed)]
    ELSE IF EndDateRejected(Get(c.end_date), t)
    THEN [returned |-> TRUE, c |-> ClearEndDate(c),
          resp |-> Say("end_past", "Sorry, end date lies (almost) in the past",
                       Some(ts_to_date(Get(c.end_date))))]
    ELSE IF StartAfterEnd(c)
    THEN [returned |-> TRUE, c |-> ClearStartDate(c),
          resp |-> Say("start_after_end",
                       "Sorry, start date can't be after and date. When should the downtime start?",
                       Some(<<ts_to_date(Get(c.start_date)), ts_to_date(Get(c.end_date))>>))]
    ELSE IF c.description = None
    THEN [returned |-> TRUE, c |-> c,
          resp |-> Say("ask_description", "Please add a comment.", None)]
    ELSE [returned |-> FALSE, c |-> c, resp |-> NoResponse]

----------------------------------------------------------------------------
(* lines 717-726: the objects named in the summary *)
ObjectName(c, o) ==
    IF c.object_type = "Host" THEN <<o.name>> ELSE <<Get(o.host_name), o.name>>

ObjectNames(c) ==
    LET objects == Get(c.filter_result)
    IN [i \in 1..Min(Len(objects), ObjectsShown) |-> ObjectName(c, objects[i])]

(* lines 700-706: how the time window is shown *)
ExpireLabel(end_date) ==
    IF end_date = NeverExpires THEN <<"Never">> ELSE ts_to_date(end_date)

(* lines 690-728: the confirmation summary *)
Confirmation(c) ==
    [Command |-> IF c.command = "DOWNTIME" THEN "Downtime" ELSE "Acknowledgement",
     Type |-> c.object_type,
     Start |-> IF c.command = "DOWNTIME" THEN Some(ts_to_date(Get(c.start_date))) ELSE None,
     End |-> IF c.command = "DOWNTIME" THEN Some(ts_to_date(Get(c.end_date))) ELSE None,
     Expire |-> IF c.command = "DOWNTIME" THEN None ELSE Some(ExpireLabel(Get(c.end_date))),
     Comment |-> Get(c.description),
     Objects |-> ObjectNames(c),
     More |-> IF Len(Get(c.filter_result)) > ObjectsShown
              THEN Len(Get(c.filter_result)) - ObjectsShown ELSE 0]

(* Variant: whatever is not a yes counts as a no *)
ReadAnswerCancelsOtherwise(c, word) ==
    IF StartsWithY(word) THEN [c EXCEPT !.confirmed = TRUE]
    ELSE [c EXCEPT !.canceled = TRUE]

(* lines 680-686: reading the answer to a confirmation prompt *)
ReadAnswer(c, word) ==
    IF StartsWithY(word) THEN [c EXCEPT !.confirmed = TRUE]
    ELSE IF StartsWithN(word) THEN [c EXCEPT !.canceled = TRUE]
    ELSE [c EXCEPT !.confirmation_sent = FALSE]

(* lines 677-733.  returned: the summary was sent; raised: cma[0] read on *)
(* an empty list (line 681).                                                *)
Confirm(c, cma) ==
    IF c.confirmed
    THEN [returned |-> FALSE, raised |-> FALSE, c |-> c, resp |-> NoResponse]
    ELSE IF c.confirmation_sent /\ cma = <<>>
    THEN [returned |-> FALSE, raised |-> TRUE, c |-> c, resp |-> NoResponse]
    ELSE LET answered == IF c.confirmation_sent THEN ReadAnswer(c, cma[1]) ELSE c
         IN IF ~answered.confirmation_sent
            THEN [returned |-> TRUE, raised |-> FALSE,
                  c |-> [answered EXCEPT !.confirmation_sent = TRUE],
                  resp |-> Say("confirm", "Confirm your action",
                               Some(Confirmation(answered)))]
            ELSE [returned |-> FALSE, raised |-> FALSE, c |-> answered,
                  resp |-> NoResponse]

(* lines 754-762: the objects the action is applied to *)
FilterList(c) ==
    LET objects == Get(c.filter_result)
    IN [i \in 1..Len(objects) |-> ObjectName(c, objects[i])]

(* line 796 *)
Expiry(end_date) ==
    IF end_date = NeverExpires THEN None ELSE Some(end_date)

(* Variant: an acknowledgement is sent whatever the command *)
MutationCallAlwaysAcknowledges(c) ==
    Call("acknowledge_problem", c.object_type, FilterList(c), None,
         c.description, None, None, None, Expiry(Get(c.end_date)))

(* lines 767-798: the one call that changes the backend *)
MutationCall(c) ==
    IF c.command = "DOWNTIME"
    THEN Call("schedule_downtime", c.object_type, FilterList(c), None,
              c.description, c.start_date, c.end_date,
              Some(Get(c.end_date) - Get(c.start_date)), None)
    ELSE Call("acknowledge_problem", c.object_type, FilterList(c), None,
              c.description, None, None, None, Expiry(Get(c.end_date)))

(* lines 739-821: the conversation is gone from the store before this      *)
(* runs.  The arguments of the call are evaluated inside the try block:    *)
(* when chat_user_data does not hold the user (lines 772, 791) the lookup  *)
(* of the author raises before the call is made.                           *)
Dispatch(c, connection, action) ==
    IF connection = "refused"
    THEN [resp |-> Resp("connection_error", "RequestResponse", "", Some("i2_error")),
          calls |-> <<>>]
    ELSE IF connection = "refused silently"
    THEN [resp |-> Resp("connection_error", "RequestResponse", "",
                        Some("Unknown error while setting up Icinga2 connection")),
          calls |-> <<>>]
    ELSE IF action = "author unknown"
    THEN [resp |-> Say("dispatch_error", "Icinga request error", Some("author lookup failed")),
          calls |-> <<>>]
    ELSE IF action = "failed"
    THEN [resp |-> Say("dispatch_error", "Icinga request error", Some("exception text")),
          calls |-> <<MutationCall(c)>>]
    ELSE [resp |-> Say("success",
                       IF c.command = "DOWNTIME" THEN "Successfully scheduled downtime!"
                       ELSE "Successfully acknowledged problem!", None),
          calls |-> <<MutationCall(c)>>]

(* Variant: a cancelled conversation is answered but not deleted *)
FinishKeepsCanceled(c, connection, action) ==
    IF c.canceled
    THEN [entry |-> Some(c), resp |-> Say("canceled", "Ok, action has been canceled!", None),
          calls |-> <<>>]
    ELSE IF c.confirmed
    THEN LET d == Dispatch(c, connection, action)
         IN [entry |-> None, resp |-> d.resp, calls |-> d.calls]
    ELSE [entry |-> Some(c), resp |-> NoResponse, calls |-> <<>>]

(* Variant: the conversation is deleted only once the call has succeeded *)
FinishKeepsFailed(c, connection, action) ==
    IF c.canceled
    THEN [entry |-> None, resp |-> Say("canceled", "Ok, action has been canceled!", None),
          calls |-> <<>>]
    ELSE IF c.confirmed
    THEN LET d == Dispatch(c, connection, action)
         IN [entry |-> IF d.resp.kind = "success" THEN None ELSE Some(c),
             resp |-> d.resp, calls |-> d.calls]
    ELSE [entry |-> Some(c), resp |-> NoResponse, calls |-> <<>>]

(* lines 735-823 *)
Finish(c, connection, action) ==
    IF c.canceled
    THEN [entry |-> None, resp |-> Say("canceled", "Ok, action has been canceled!", None),
          calls |-> <<>>]
    ELSE IF c.confirmed
    THEN LET d == Dispatch(c, connection, action)
         IN [entry |-> None, resp |-> d.resp, calls |-> d.calls]
    ELSE [entry |-> Some(c), resp |-> NoResponse, calls |-> <<>>]

----------------------------------------------------------------------------
(* chat_with_user, lines 405-823, for a message and a user id that are    *)
(* both given.  The conversation object is changed in place, so the store *)
(* holds every change made up to the point where the handling returns or  *)
(* raises.                                                                  *)
Outcome(entry, resp, cs, p, c) ==
    [entry |-> entry, resp |-> resp, calls |-> cs, parsed |-> p, final |-> Some(c)]

(* lines 677-823: confirmation, cancellation and dispatch.  p is the      *)
(* conversation as the parsing stages left it.                            *)
HandleConfirmation(c, cma, p, queries, connection, action) ==
    LET s8 == Confirm(c, cma)
        s9 == Finish(s8.c, connection, action)
    IN IF s8.raised THEN Outcome(Some(s8.c), Raised("IndexError"), queries, p, s8.c)
       ELSE IF s8.returned THEN Outcome(Some(s8.c), s8.resp, queries, p, s8.c)
       ELSE Outcome(s9.entry, s9.resp, queries \o s9.calls, p, s8.c)

(* lines 587-823 *)
HandleMissing(c, cma, queries, t, connection, action) ==
    LET s7 == AskMissing(c, t)
    IN IF s7.returned THEN Outcome(Some(s7.c), s7.resp, queries, Some(c), s7.c)
       ELSE HandleConfirmation(s7.c, cma, Some(c), queries, connection, action)

(* lines 577-823 *)
HandleDescription(c, cma, queries, t, connection, action) ==
    LET s6 == ParseDescription(c, cma)
    IN HandleMissing(s6.c, s6.cma, queries, t, connection, action)

(* lines 545-823 *)
HandleEndDate(c, cma, queries, t, connection, action) ==
    LET s5 == ParseEndDate(c, cma, t)
    IN IF s5.raised THEN Outcome(Some(s5.c), Raised("IndexError"), queries, None, s5.c)
       ELSE HandleDescription(s5.c, s5.cma, queries, t, connection, action)

(* lines 512-823 *)
HandleStartDate(c, cma, queries, t, connection, action) ==
    LET s4 == ParseStartDate(c, cma, t)
    IN IF s4.raised THEN Outcome(Some(s4.c), Raised("IndexError"), queries, None, s4.c)
       ELSE HandleEndDate(s4.c, s4.cma, queries, t, connection, action)

(* lines 448-823 *)
HandleObjects(c, cma, t, hostAnswer, serviceAnswer, connection, action) ==
    LET s3 == ResolveFilter(c, hostAnswer, serviceAnswer)
    IN IF IsSet(s3.error)
       THEN Outcome(Some(s3.c),
                    Say("icinga_error",
                        "Icinga request error while trying to find matching hosts/services",
                        s3.error),
                    s3.calls, None, s3.c)
       ELSE HandleStartDate(s3.c, cma, s3.calls, t, connection, action)

(* lines 428-823 *)
HandleFilter(c, cma, t, hostAnswer, serviceAnswer, connection, action) ==
    LET s2 == ParseFilter(c, cma)
    IN HandleObjects(s2.c, s2.cma, t, hostAnswer, serviceAnswer, connection, action)

chat_with_user(stored, cma0, t, hostAnswer, serviceAnswer, connection, action) ==
    LET c0 == IF stored = None THEN SlackConversation ELSE Get(stored)
        s1 == ParseCommand(c0, cma0)
    IN IF ~s1.recognized THEN Outcome(Some(c0), NoResponse, <<>>, None, c0)
       ELSE HandleFilter(s1.c, s1.cma, t, hostAnswer, serviceAnswer, connection, action)

----------------------------------------------------------------------------
(* chat_with_user, lines 391-403: the call comes without a message or     *)
(* without a user id.  A message that is not given is None; a user id     *)
(* that is not given is NoUserId, which is not a key of the store.        *)
NoUserId == "nobody"

InternalError ==
    Say("internal_error", "Slack internal error",
        Some("parameters missing in 'chat_with_user' function"))

(* Variant: the conversation is created before the parameters are checked *)
WithoutParametersCreatesConversation(stored) ==
    IF stored = None THEN Some(SlackConversation) ELSE stored

(* line 403 returns before the store is read (line 406): the entry of the *)
(* user stays what it is                                                   *)
WithoutParameters(stored) == stored

(* What a response carries besides its text.  A SlackResponse has blocks  *)
(* and attachments (lines 392-402, 476-485, 711-728, 805-816); a          *)
(* RequestResponse (lines 750, 752) has a response and an error only.     *)
(* The block of line 809 is made from the text attribute of the           *)
(* RequestResponse, not from the title of the SlackResponse.              *)
DangerAttachment(resp) ==
    [fallback |-> resp.text, text |-> <<"Error:", Get(resp.detail)>>, color |-> "danger"]

Blocks(resp) ==
    IF resp.cls # "SlackResponse" THEN <<>>
    ELSE IF resp.kind \in {"internal_error", "icinga_error"} THEN <<resp.text>>
    ELSE IF resp.kind = "dispatch_error" THEN <<"RequestResponse.text">>
    ELSE IF resp.kind = "confirm"
    THEN <<Get(resp.detail), "Do you want to confirm this action?:">>
    ELSE <<>>

Attachments(resp) ==
    IF resp.cls = "SlackResponse"
       /\ resp.kind \in {"internal_error", "icinga_error", "dispatch_error"}
    THEN <<DangerAttachment(resp)>>
    ELSE <<>>

----------------------------------------------------------------------------
(* The chat messages users send: single words, and longer messages that   *)
(* give several fields at once.                                           *)

Messages ==
    { <<"ack">>, <<"y">>, <<"n">>, <<"d2">>,
      <<"d2", "y">>,
      <<"ack", "y", "until">>,
      <<"ack", "y", "until", "d1", "n">>,
      <<"ack", "y", "until", "never", "n">>,
      <<"dt", "y", "from", "d1", "until", "d2", "n">>,
      <<"dt", "y", "from", "d2", "until", "d1", "n">> }

IsMutation(call) == call.op \in {"schedule_downtime", "acknowledge_problem"}
Mutations(cs) == SelectSeq(cs, IsMutation)

Init ==
    /\ conversations = [u \in UserIds |-> None]
    /\ now = StartTime
    /\ turns = 0
    /\ ticks = 0
    /\ chat_user_id = "nobody"
    /\ chat_message = <<>>
    /\ before = None
    /\ parsed = None
    /\ response = Resp("init", "None", "", None)
    /\ calls = <<>>
    /\ handled_at = StartTime
    /\ backend = [host |-> NoAnswer, service |-> NoAnswer,
                  connection |-> "connected", action |-> "done"]
    /\ final = None
    /\ inflight = <<>>
    /\ status = [op |-> "none"]

(* The backend's answers are chosen only where the handling asks the     *)
(* backend: a Host query for a single filter word, a Service query for    *)
(* two words or after an empty Host result, the connection and the call   *)
(* when the handling dispatches.                                          *)
HostChoices(stored, cma) ==
    LET c0 == IF stored = None THEN SlackConversation ELSE Get(stored)
        s1 == ParseCommand(c0, cma)
        asked == ParseFilter(s1.c, s1.cma).c
    IN IF s1.recognized /\ NeedsObjects(asked) /\ Len(Get(asked.filter)) = 1
       THEN BackendAnswers("Host") ELSE {NoAnswer}

ServiceChoices(stored, cma, hostAnswer) ==
    LET c0 == IF stored = None THEN SlackConversation ELSE Get(stored)
        s1 == ParseCommand(c0, cma)
        asked == ParseFilter(s1.c, s1.cma).c
    IN IF s1.recognized /\ NeedsObjects(asked)
          /\ QueryObjects(asked, hostAnswer, NoAnswer).object_type = "Service"
       THEN BackendAnswers("Service") ELSE {NoAnswer}

DispatchChoices(stored, cma, t, hostAnswer, serviceAnswer) ==
    LET o == chat_with_user(stored, cma, t, hostAnswer, serviceAnswer, "connected", "done")
    IN IF Mutations(o.calls) # <<>>
       THEN {<<"connected", "done">>, <<"connected", "failed">>,
             <<"connected", "author unknown">>,
             <<"refused", "done">>, <<"refused silently", "done">>}
       ELSE {<<"connected", "done">>}

(* The store is a dict keyed by the user id.  chat_with_user reads the    *)
(* entry of chat_user_id (lines 406-409), assigns to it (lines 407, 446,  *)
(* ..., 731) and deletes it (lines 736, 742); it touches no other key.    *)

(* Variant: the store holds one conversation that all users share *)
StoreConversationShared(store, user, entry) == [v \in DOMAIN store |-> entry]

StoreConversation(store, user, entry) == [store EXCEPT ![user] = entry]

(* A user's message is handled by chat_with_user *)
Message(u) ==
    /\ turns < MaxTurns
    /\ \E cma \in Messages :
       \E hostAnswer \in HostChoices(conversations[u], cma) :
       \E serviceAnswer \in ServiceChoices(conversations[u], cma, hostAnswer) :
       \E dispatch \in DispatchChoices(conversations[u], cma, now, hostAnswer, serviceAnswer) :
       \E o \in {chat_with_user(conversations[u], cma, now, hostAnswer, serviceAnswer,
                                 dispatch[1], dispatch[2])} :
             /\ conversations' = StoreConversation(conversations, u, o.entry)
             /\ chat_user_id' = u
             /\ chat_message' = cma
             /\ before' = conversations[u]
             /\ parsed' = o.parsed
             /\ response' = o.resp
             /\ calls' = o.calls
             /\ handled_at' = now
             /\ backend' = [host |-> hostAnswer, service |-> serviceAnswer,
                            connection |-> dispatch[1], action |-> dispatch[2]]
             /\ final' = o.final
             /\ turns' = turns + 1
             /\ UNCHANGED <<now, ticks, inflight, status>>

(* The calls that come without a message, without a user id or without  *)
(* both                                                                    *)
ParameterChoices ==
    { [chat_message |-> None, chat_user_id |-> "U1"],
      [chat_message |-> <<"y">>, chat_user_id |-> NoUserId],
      [chat_message |-> None, chat_user_id |-> NoUserId] }

(* chat_with_user is called without a message or without a user id *)
MessageWithoutParameters ==
    /\ turns < MaxTurns
    /\ \E p \in ParameterChoices :
          /\ conversations' = [u \in UserIds |->
                                  IF u = p.chat_user_id
                                  THEN WithoutParameters(conversations[u])
                                  ELSE conversations[u]]
          /\ chat_user_id' = p.chat_user_id
          /\ chat_message' = p.chat_message
          /\ before' = IF p.chat_user_id \in UserIds
                       THEN conversations[p.chat_user_id] ELSE None
    /\ parsed' = None
    /\ response' = InternalError
    /\ calls' = <<>>
    /\ handled_at' = now
    /\ backend' = [host |-> NoAnswer, service |-> NoAnswer,
                   connection |-> "connected", action |-> "done"]
    /\ final' = None
    /\ turns' = turns + 1
    /\ UNCHANGED <<now, ticks, inflight, status>>

(* Time passes between messages *)
Tick ==
    /\ ticks < MaxTicks
    /\ now' = now + Grace
    /\ ticks' = ticks + 1
    /\ UNCHANGED <<conversations, turns, chat_user_id, chat_message, before,
                   parsed, response, calls, handled_at, backend, final, inflight,
                   status>>

Next ==
    \/ \E u \in Users : Message(u)
    \/ MessageWithoutParameters
    \/ Tick

Spec == Init /\ [][Next]_vars

----------------------------------------------------------------------------
(* Vocabulary of the properties.  The history variables describe the      *)
(* handling of the message handled last.                                  *)

(* a message of a user was handled: the last call came with both *)
Handled == turns > 0 /\ response.kind # "internal_error"
Entry == conversations[chat_user_id]
Before == IF before = None THEN SlackConversation ELSE Get(before)
FirstWord == chat_message[1]

Cancelled == response.kind = "canceled"
DispatchAttempted == response.kind \in {"success", "dispatch_error", "connection_error"}

(* command, filter, resolved objects and, for a downtime, the start date  *)
(* and the end date are all set                                            *)
SetUpToEndDate(c) ==
    /\ c.command # "None"
    /\ IsSet(c.filter)
    /\ IsSet(c.filter_result)
    /\ c.command = "DOWNTIME" => IsSet(c.start_date)
    /\ IsSet(c.end_date)

(* the confirmation summary was the last thing sent for the conversation *)
PromptPending(stored) ==
    /\ IsSet(stored)
    /\ Get(stored).confirmation_sent
    /\ SetUpToEndDate(Get(stored))
    /\ IsSet(Get(stored).description)

(* the dates of a conversation pass the checks of lines 649 and 660 at t *)
DatesValid(c, t) ==
    /\ Get(c.end_date) >= t + Grace
    /\ c.command = "DOWNTIME" => Get(c.start_date) <= Get(c.end_date)

(* The fields in the order the conversation is meant to fill them *)
FieldOrder ==
    <<"command", "filter", "filter_result", "start_date", "end_date",
      "description", "confirmation">>
FieldCount == Len(FieldOrder)
FieldIsSet(c, k) ==
    CASE FieldOrder[k] = "command" -> c.command # "None"
      [] FieldOrder[k] = "filter" -> IsSet(c.filter)
      [] FieldOrder[k] = "filter_result" -> IsSet(c.filter_result)
      [] FieldOrder[k] = "start_date" -> IsSet(c.start_date)
      [] FieldOrder[k] = "end_date" -> IsSet(c.end_date)
      [] FieldOrder[k] = "description" -> IsSet(c.description)
      [] FieldOrder[k] = "confirmation" -> c.confirmation_sent
FieldApplies(c, k) == FieldOrder[k] = "start_date" => c.command = "DOWNTIME"

----------------------------------------------------------------------------
(* C1: a backend mutation call is issued only while handling a message    *)
(* whose first word begins with "y"/"Y" and that arrives for a            *)
(* conversation whose confirmation prompt has already been sent.          *)
C1_MutationOnlyOnYes ==
    (Handled /\ Mutations(calls) # <<>>) =>
        /\ StartsWithY(FirstWord)
        /\ IsSet(before)
        /\ Get(before).confirmation_sent

(* C2: after a handling that neither cancels nor attempts a dispatch the  *)
(* store holds an entry for the user; after one that cancels or attempts  *)
(* a dispatch, whatever its outcome, it holds none.                        *)
C2_EntryUnlessTerminal ==
    Handled => (IsSet(Entry) <=> ~(Cancelled \/ DispatchAttempted))

C2_Witness ==
    Handled /\ response.kind = "dispatch_error" /\ Entry = None

(* C3: no handling sets a field while a field earlier in the order        *)
(* command, filter, filter_result, start_date (downtime), end_date,       *)
(* description, confirmation is unset when the handling ends.             *)
C3_FieldsFilledInOrder ==
    (Handled /\ IsSet(Entry)) =>
        \A j \in 1..FieldCount : \A i \in 1..(j - 1) :
            (~FieldIsSet(Before, j) /\ FieldIsSet(Get(Entry), j)
                /\ FieldApplies(Get(Entry), i))
            => FieldIsSet(Get(Entry), i)

(* C4: an ACK conversation with resolved objects, the "never" end date    *)
(* and a description is not turned back by the end date check: it gets    *)
(* the confirmation prompt and keeps the sentinel.                         *)
C4_NeverPassesEndDateCheck ==
    (Handled /\ IsSet(parsed)
        /\ Get(parsed).command = "ACK"
        /\ SetUpToEndDate(Get(parsed))
        /\ Get(parsed).end_date = Some(NeverExpires)
        /\ IsSet(Get(parsed).description)
        /\ ~Get(parsed).confirmation_sent)
    => /\ response.kind = "confirm"
       /\ IsSet(Entry)
       /\ Get(Entry).end_date = Some(NeverExpires)

(* C5 as claimed: an end date of at most now + 60 seconds is cleared and  *)
(* asked for again.                                                        *)
C5_EndDateAtMostGraceCleared ==
    (Handled /\ IsSet(parsed)
        /\ SetUpToEndDate(Get(parsed))
        /\ Get(Get(parsed).end_date) > 0
        /\ Get(Get(parsed).end_date) <= handled_at + Grace)
    => /\ response.kind = "end_past"
       /\ Mutations(calls) = <<>>
       /\ IsSet(Entry)
       /\ Get(Entry).end_date = None

(* C5 as amended: for either command, with all fields up to end_date set,  *)
(* an end timestamp of less than now + 60 seconds is cleared, the end     *)
(* date is asked for again, no mutation call is issued and the            *)
(* conversation stays in the store.                                        *)
C5_EndDateBelowGraceCleared ==
    (Handled /\ IsSet(parsed)
        /\ SetUpToEndDate(Get(parsed))
        /\ Get(Get(parsed).end_date) > 0
        /\ Get(Get(parsed).end_date) < handled_at + Grace)
    => /\ response.kind = "end_past"
       /\ Mutations(calls) = <<>>
       /\ IsSet(Entry)
       /\ Get(Entry).end_date = None

C5_Witness ==
    /\ Handled /\ IsSet(parsed) /\ IsSet(Entry)
    /\ SetUpToEndDate(Get(parsed))
    /\ Get(Get(parsed).end_date) > 0
    /\ response.kind = "end_past"
    /\ Get(Entry).end_date = None

(* C6: a downtime whose end date passes the future check and whose start  *)
(* date lies after it has its start date cleared and its end date kept,   *)
(* is asked for the start date, and no mutation call is issued.            *)
C6_StartAfterEndClearsStart ==
    (Handled /\ IsSet(parsed)
        /\ Get(parsed).command = "DOWNTIME"
        /\ SetUpToEndDate(Get(parsed))
        /\ Get(Get(parsed).end_date) >= handled_at + Grace
        /\ Get(Get(parsed).start_date) > Get(Get(parsed).end_date))
    => /\ response.kind = "start_after_end"
       /\ Mutations(calls) = <<>>
       /\ IsSet(Entry)
       /\ Get(Entry).start_date = None
       /\ Get(Entry).end_date = Get(parsed).end_date

C6_Witness ==
    /\ Handled /\ IsSet(parsed) /\ IsSet(Entry)
    /\ Get(parsed).command = "DOWNTIME"
    /\ IsSet(Get(parsed).start_date)
    /\ response.kind = "start_after_end"
    /\ Get(Entry).start_date = None
    /\ IsSet(Get(Entry).end_date)

(* C7: when a mutation call is issued the end date is the sentinel or at  *)
(* least 60 seconds ahead, and for a downtime the start date does not     *)
(* exceed the end date, so the duration passed is not negative.            *)
C7_DispatchedDatesValid ==
    (Handled /\ Mutations(calls) # <<>>) =>
        LET c == Get(parsed)
            call == Mutations(calls)[1]
        IN /\ \/ Get(c.end_date) = NeverExpires
              \/ Get(c.end_date) >= handled_at + Grace
           /\ c.command = "DOWNTIME" =>
                 /\ Get(c.start_date) <= Get(c.end_date)
                 /\ call.start_time = c.start_date
                 /\ call.end_time = c.end_date
                 /\ Get(call.duration) >= 0

C7_Witness ==
    /\ Handled /\ Mutations(calls) # <<>>
    /\ Mutations(calls)[1].op = "schedule_downtime"
    /\ Get(Mutations(calls)[1].duration) >= 0

C9_NoCancels ==
    (Handled /\ PromptPending(before) /\ StartsWithN(FirstWord))
    => /\ Cancelled
       /\ response.text = "Ok, action has been canceled!"
       /\ Mutations(calls) = <<>>
       /\ Entry = None

----------------------------------------------------------------------------
(* the handling confirmed the conversation: line 681 set confirmed *)
Confirmed == Handled /\ IsSet(final) /\ Get(final).confirmed

(* the operation the command stands for *)
OperationOf(c) ==
    IF c.command = "DOWNTIME" THEN "schedule_downtime" ELSE "acknowledge_problem"

(* C11 as claimed: a handling that confirms a conversation issues exactly *)
(* one mutation call, the one of its command.                              *)
C11_ConfirmIssuesOneCall ==
    Confirmed =>
        /\ Len(Mutations(calls)) = 1
        /\ Mutations(calls)[1].op = OperationOf(Get(final))

(* C11 as amended: a handling that confirms a conversation issues exactly *)
(* one mutation call, schedule_downtime for DOWNTIME and                   *)
(* acknowledge_problem for ACK, when the backend connection is set up and *)
(* the author is found in chat_user_data; it issues none when the         *)
(* connection cannot be set up or the author lookup raises.                *)
C11_ConfirmIssuesOneCallWhenConnected ==
    Confirmed =>
        IF backend.connection = "connected" /\ backend.action # "author unknown"
        THEN /\ Len(Mutations(calls)) = 1
             /\ Mutations(calls)[1].op = OperationOf(Get(final))
        ELSE Mutations(calls) = <<>>

C11_Witness ==
    /\ Confirmed
    /\ Get(final).command = "DOWNTIME"
    /\ backend.action = "failed"
    /\ Len(Mutations(calls)) = 1
    /\ Mutations(calls)[1].op = "schedule_downtime"

----------------------------------------------------------------------------
(* a backend query of the handling failed *)
QueryFailed == Handled /\ (backend.host.failed \/ backend.service.failed)

(* C12: a backend query failure during filter resolution leaves the       *)
(* stored conversation as it was before the message was handled: neither  *)
(* the command nor the filter written during the handling persists.       *)
C12_QueryFailureLeavesConversation ==
    QueryFailed =>
        \/ Entry = before
        \/ IsSet(Entry) /\ Get(Entry) = Before

(* the two answers given when no object matches the filter (lines 600-614) *)
NotFoundTexts ==
    { "Sorry, I was not able to find any problematic hosts or services",
      "Sorry, I was not able to find any hosts or services" }

Queries(cs) == SelectSeq(cs, LAMBDA call : call.op = "get_i2_object")

(* C13: when a backend object query fails the handling returns the        *)
(* request error, not the answer for an empty result; filter_result stays *)
(* unset, the filter is not reset, and no Service query follows a failed  *)
(* Host query.                                                             *)
C13_QueryFailureIsDistinctError ==
    QueryFailed =>
        /\ response.kind = "icinga_error"
        /\ response.text \notin NotFoundTexts
        /\ response.detail = Some("request failed")
        /\ IsSet(Entry)
        /\ Get(Entry).filter_result = None
        /\ IsSet(Get(Entry).filter)
        /\ backend.host.failed =>
              /\ Len(Queries(calls)) = 1
              /\ Queries(calls)[1].object_type = "Host"

C13_Witness ==
    /\ QueryFailed
    /\ backend.host.failed
    /\ response.kind = "icinga_error"
    /\ Len(Queries(calls)) = 1

----------------------------------------------------------------------------
(* the filter as the handling parsed it, before a not-found answer resets it *)
ParsedFilter == IF IsSet(parsed) THEN Get(parsed).filter ELSE Get(final).filter

(* the words of the message that follow the command *)
AfterCommandWord == ParseCommand(Before, chat_message).cma

ReservedWords == {"from", "until"}

(* C14: the filter is the first remaining word, and the second one only   *)
(* if there is a second one and it is neither "from" nor "until".          *)
C14_FilterSkipsReservedWords ==
    (Handled /\ IsSet(final) /\ Before.filter = None /\ IsSet(ParsedFilter)) =>
        LET rest == AfterCommandWord
        IN Get(ParsedFilter) =
              IF Len(rest) >= 2 /\ rest[2] \notin ReservedWords
              THEN <<rest[1], rest[2]>>
              ELSE <<rest[1]>>

----------------------------------------------------------------------------
(* the Host query of the handling succeeded and matched nothing (line 462) *)
HostQueryEmpty(state_filter) ==
    /\ ~backend.host.failed
    /\ get_i2_object(FALSE, backend.host.matching, state_filter).response = <<>>

(* C15: with one filter word Host objects are queried first and Service   *)
(* objects, with the same word, only after a Host query that succeeded    *)
(* without a match; with two filter words only Service objects are        *)
(* queried.                                                                *)
C15_LookupOrder ==
    (Handled /\ Queries(calls) # <<>>) =>
        LET q == Queries(calls)
            names == Get(q[1].names)
        IN /\ Some(names) = ParsedFilter
           /\ \A i \in 1..Len(q) : q[i].names = q[1].names
           /\ Len(names) = 1 =>
                 /\ q[1].object_type = "Host"
                 /\ Len(q) <= 2
                 /\ Len(q) = 2 <=> HostQueryEmpty(q[1].filters)
                 /\ Len(q) = 2 => q[2].object_type = "Service"
           /\ Len(names) # 1 =>
                 /\ Len(q) = 1
                 /\ q[1].object_type = "Service"

C15_Witness ==
    /\ Handled
    /\ Len(Queries(calls)) = 2
    /\ Queries(calls)[1].object_type = "Host"
    /\ Queries(calls)[2].object_type = "Service"
    /\ Len(Get(Queries(calls)[1].names)) = 1

----------------------------------------------------------------------------
(* the handling resolved the filter: filter_result was unset and is set *)
Resolved ==
    /\ Handled /\ IsSet(final)
    /\ Before.filter_result = None
    /\ IsSet(Get(final).filter_result)

(* the objects the backend holds for the object type the handling settled on *)
BackendResult ==
    IF Get(final).object_type = "Host" THEN backend.host.matching
    ELSE backend.service.matching

(* C16: for an ACK every object of filter_result is unacknowledged and    *)
(* every query carried the state filter of its object type; for a         *)
(* DOWNTIME no query carried a state filter and filter_result is the      *)
(* backend's result as it came, acknowledged objects included.             *)
C16_ActionableObjects ==
    Resolved =>
        LET c == Get(final)
            objects == Get(c.filter_result)
            q == Queries(calls)
        IN IF c.command = "ACK"
           THEN /\ \A i \in 1..Len(objects) : objects[i].acknowledgement = 0
                /\ \A i \in 1..Len(q) :
                      q[i].filters = IF q[i].object_type = "Host"
                                     THEN <<"host.state != 0">>
                                     ELSE <<"service.state != 0">>
           ELSE /\ \A i \in 1..Len(q) : q[i].filters = <<>>
                /\ objects = BackendResult

C16_Witness ==
    /\ Resolved
    /\ Get(final).command = "DOWNTIME"
    /\ \E i \in 1..Len(Get(Get(final).filter_result)) :
          Get(Get(final).filter_result)[i].acknowledgement # 0

----------------------------------------------------------------------------
(* the answers that ask for a start date, an end date, a description or   *)
(* the confirmation (lines 616-733)                                        *)
LaterPrompts ==
    { "ask_start", "start_failed", "ask_end", "end_failed", "end_past",
      "start_after_end", "ask_description", "confirm" }

(* C17: a filter_result that is set is a non-empty sequence and comes     *)
(* with an object type; no later handling changes either of them while    *)
(* the conversation exists; and the start date, the end date, the         *)
(* description and the confirmation are only asked for once it is set.     *)
C17_FilterResultStable ==
    (Handled /\ IsSet(final)) =>
        LET c == Get(final)
        IN /\ IsSet(c.filter_result) =>
                 /\ Len(Get(c.filter_result)) > 0
                 /\ c.object_type \in {"Host", "Service"}
           /\ IsSet(Before.filter_result) =>
                 /\ c.filter_result = Before.filter_result
                 /\ c.object_type = Before.object_type
           /\ response.kind \in LaterPrompts => IsSet(c.filter_result)

C17_Witness ==
    /\ Handled /\ IsSet(final)
    /\ IsSet(Before.filter_result)
    /\ Get(final).filter_result = Before.filter_result
    /\ response.kind = "ask_end"

----------------------------------------------------------------------------
(* C18: no conversation, stored or being handled, is both confirmed and   *)
(* cancelled, and a conversation leaves the store through exactly one of  *)
(* the two: the cancellation or the dispatch of the confirmed action.      *)
C18_OneTerminalOutcome ==
    /\ \A u \in UserIds :
          IsSet(conversations[u]) =>
              /\ ~Get(conversations[u]).confirmed
              /\ ~Get(conversations[u]).canceled
    /\ (Handled /\ IsSet(final)) =>
          LET c == Get(final)
          IN /\ ~(c.confirmed /\ c.canceled)
             /\ Entry = None <=> (c.confirmed \/ c.canceled)
             /\ c.canceled <=> Cancelled
             /\ c.confirmed <=> DispatchAttempted

C18_Witness ==
    /\ Handled /\ IsSet(final) /\ IsSet(before)
    /\ Entry = None
    /\ Get(final).canceled /\ ~Get(final).confirmed
    /\ Cancelled

----------------------------------------------------------------------------
(* The event loop around chat_with_user.  Chat events are taken up one at *)
(* a time by a single-threaded cooperative scheduler: a handler runs to   *)
(* completion unless it suspends, and only a suspended handler lets the   *)
(* scheduler take up another event.  chat_with_user is a plain function   *)
(* whose backend calls are plain calls (get_i2_object, lines 459-471;     *)
(* setup_icinga_connection, line 745; the actions, lines 767-798): it has *)
(* no point at which it suspends.                                          *)

(* Variant: the backend calls are awaited *)
BackendCallAwaited == TRUE

BackendCallSuspends == FALSE

SchedulerMessages ==
    { <<"ack">>, <<"dt">>, <<"y">>, <<"n">>, <<"ack", "y", "until", "d1", "n">> }

(* the handling of the message gets as far as a backend call *)
ReachesBackend(stored, cma, t) ==
    \/ HostChoices(stored, cma) # {NoAnswer}
    \/ ServiceChoices(stored, cma, NoAnswer) # {NoAnswer}
    \/ Cardinality(DispatchChoices(stored, cma, t, NoAnswer, NoAnswer)) > 1

Suspended(h) == h.suspended

AllSuspended == \A i \in 1..Len(inflight) : Suspended(inflight[i])

Remove(seq, i) == SubSeq(seq, 1, i - 1) \o SubSeq(seq, i + 1, Len(seq))

(* the scheduler takes up a chat event of user u: the handler reads the   *)
(* user's store entry (lines 406-409)                                      *)
Begin(u) ==
    /\ turns < MaxEvents
    /\ AllSuspended
    /\ \E cma \in SchedulerMessages :
          inflight' = Append(inflight,
              [user |-> u, message |-> cma, from |-> conversations[u],
               suspended |-> BackendCallSuspends
                             /\ ReachesBackend(conversations[u], cma, now)])
    /\ turns' = turns + 1
    /\ UNCHANGED <<conversations, now, ticks, chat_user_id, chat_message, before,
                   parsed, response, calls, handled_at, backend, final, status>>

(* the handler of inflight[i] runs to its end; a suspended handler is     *)
(* resumed only when no other handler is running                           *)
Complete(i) ==
    /\ i \in 1..Len(inflight)
    /\ ~Suspended(inflight[i]) \/ AllSuspended
    /\ LET h == inflight[i]
       IN \E hostAnswer \in HostChoices(h.from, h.message) :
          \E serviceAnswer \in ServiceChoices(h.from, h.message, hostAnswer) :
          \E dispatch \in DispatchChoices(h.from, h.message, now, hostAnswer, serviceAnswer) :
          \E o \in {chat_with_user(h.from, h.message, now, hostAnswer, serviceAnswer,
                                    dispatch[1], dispatch[2])} :
                /\ conversations' = StoreConversation(conversations, h.user, o.entry)
                /\ chat_user_id' = h.user
                /\ chat_message' = h.message
                /\ before' = h.from
                /\ parsed' = o.parsed
                /\ response' = o.resp
                /\ calls' = o.calls
                /\ handled_at' = now
                /\ backend' = [host |-> hostAnswer, service |-> serviceAnswer,
                               connection |-> dispatch[1], action |-> dispatch[2]]
                /\ final' = o.final
    /\ inflight' = Remove(inflight, i)
    /\ UNCHANGED <<now, turns, ticks, status>>

(* The command dispatcher in front of chat_with_user.  The help text      *)
(* (slack_command_help) announces "reset: abort current action (ack/dt)"; *)
(* the dispatcher that receives it is described by the specification: a   *)
(* "reset" is a message of its own that deletes the user's conversation   *)
(* entry and is not handed to chat_with_user.                              *)

(* Variant: a conversation waiting for the confirmation is left alone *)
ResetConversationUnlessPrompted(stored) ==
    IF IsSet(stored) /\ Get(stored).confirmation_sent THEN stored ELSE None

ResetConversation(stored) == None

(* the scheduler takes up a "reset" event of user u *)
Reset(u) ==
    /\ turns < MaxEvents
    /\ AllSuspended
    /\ conversations' = [conversations EXCEPT ![u] = ResetConversation(conversations[u])]
    /\ chat_user_id' = u
    /\ chat_message' = <<"reset">>
    /\ before' = conversations[u]
    /\ parsed' = None
    /\ response' = Say("reset", "Your conversation has been reset.", None)
    /\ calls' = <<>>
    /\ handled_at' = now
    /\ backend' = [host |-> NoAnswer, service |-> NoAnswer,
                   connection |-> "connected", action |-> "done"]
    /\ final' = None
    /\ turns' = turns + 1
    /\ UNCHANGED <<now, ticks, inflight, status>>

SchedulerNext ==
    \/ \E u \in UserIds : Begin(u)
    \/ \E u \in UserIds : Reset(u)
    \/ \E i \in 1..MaxEvents : Complete(i)

SchedulerSpec == Init /\ [][SchedulerNext]_vars

(* C19: no two handlings of chat_with_user for the same user are in       *)
(* flight at once, and a handling in flight began from the conversation   *)
(* as the last completed handling for its user left it in the store, also *)
(* when it has reached a backend call and other users have conversations. *)
C19_OneHandlingPerUser ==
    /\ \A i, j \in 1..Len(inflight) :
          i # j => inflight[i].user # inflight[j].user
    /\ \A i \in 1..Len(inflight) :
          inflight[i].from = conversations[inflight[i].user]

C19_Witness ==
    /\ Len(inflight) = 1
    /\ inflight[1].user = "U1"
    /\ IsSet(inflight[1].from)
    /\ ReachesBackend(inflight[1].from, inflight[1].message, now)
    /\ IsSet(conversations["U2"])

----------------------------------------------------------------------------
(* C20: a "reset" from a user with a conversation in progress deletes the *)
(* conversation, whatever its state, and is not taken as a filter, a      *)
(* date, a description or an answer to the confirmation prompt: it does   *)
(* not pass through chat_with_user and causes no backend call.             *)
C20_ResetDeletesConversation ==
    (turns > 0 /\ chat_message = <<"reset">>) =>
        /\ Entry = None
        /\ final = None
        /\ calls = <<>>

C20_Witness ==
    /\ turns > 0 /\ chat_message = <<"reset">>
    /\ IsSet(before)
    /\ Get(before).confirmation_sent
    /\ Entry = None

----------------------------------------------------------------------------
(* the answers that report an error *)
ErrorKinds == {"internal_error", "icinga_error", "connection_error", "dispatch_error"}

(* C21: every error path of chat_with_user (missing parameters, failed    *)
(* backend query, failed set-up of the backend connection, failed         *)
(* mutation call) returns a chat response with a title text, a block and  *)
(* a "danger" attachment that carries the error text.                      *)
C21_ErrorResponsesComplete ==
    (turns > 0 /\ response.kind \in ErrorKinds) =>
        /\ response.cls = "SlackResponse"
        /\ response.text # ""
        /\ Len(Blocks(response)) > 0
        /\ \E i \in 1..Len(Attachments(response)) :
              /\ Attachments(response)[i].color = "danger"
              /\ Attachments(response)[i].text = <<"Error:", Get(response.detail)>>

----------------------------------------------------------------------------
(* C22: a call of chat_with_user without a message or without a user id   *)
(* returns the internal error, creates, changes and deletes no entry of   *)
(* the store and makes no backend call.                                    *)
C22_MissingParametersChangeNothing ==
    [][response'.kind = "internal_error" =>
          /\ response' = InternalError
          /\ conversations' = conversations
          /\ calls' = <<>>]_vars

C22_Witness ==
    /\ response.kind = "internal_error"
    /\ chat_message = None
    /\ chat_user_id = "U1"
    /\ IsSet(conversations["U1"])
    /\ conversations["U1"] = before
    /\ calls = <<>>

----------------------------------------------------------------------------
(* the fields a date check has to leave alone: what was set in b has the  *)
(* same value in c                                                         *)
Keeps(c, b) ==
    /\ b.command # "None" => c.command = b.command
    /\ IsSet(b.filter) => c.filter = b.filter
    /\ IsSet(b.filter_result) =>
          /\ c.filter_result = b.filter_result
          /\ c.object_type = b.object_type
    /\ IsSet(b.description) => c.description = b.description

(* C23: a rejected end date clears end_date and nothing else, a rejected   *)
(* start date clears start_date and nothing else: the conversation stays  *)
(* in the store as the parsing left it but for that one field, and what   *)
(* was set before the message is still set to the same value.              *)
C23_ValidationClearsOneField ==
    (Handled /\ IsSet(parsed) /\ IsSet(final)) =>
        LET p == Get(parsed)
            c == Get(final)
        IN /\ response.kind = "end_past" =>
                 /\ IsSet(p.end_date)
                 /\ c = [p EXCEPT !.end_date = None]
                 /\ Entry = final
                 /\ IsSet(Before.start_date) => c.start_date = Before.start_date
                 /\ Keeps(c, Before)
           /\ response.kind = "start_after_end" =>
                 /\ IsSet(p.start_date)
                 /\ c = [p EXCEPT !.start_date = None]
                 /\ Entry = final
                 /\ IsSet(Before.end_date) => c.end_date = Before.end_date
                 /\ Keeps(c, Before)

C23_Witness ==
    /\ Handled /\ IsSet(parsed) /\ IsSet(Entry)
    /\ response.kind = "end_past"
    /\ IsSet(Before.end_date)
    /\ IsSet(Before.description)
    /\ Get(Entry).end_date = None
    /\ Get(Entry).description = Before.description

----------------------------------------------------------------------------
(* The status commands: run_icinga_status_query and                       *)
(* get_icinga_status_overview.  They do not touch the conversation store  *)
(* and keep no state of their own: a run follows one command.             *)
(* A response is the SlackResponse that is returned: its text (a list of  *)
(* parts), its blocks and its attachments.                                 *)

MaxResults == 5      \* objects a status query returns at most
MaxObjects == 2      \* hosts, and services, the overview counts at most

max_messages_to_display_detailed_status == 4

StatusTypes == {"Host", "Service"}

(* state code -> label and state code -> colour; the codes start at 0 *)
host_states == <<"UP", "DOWN", "UNREACHABLE">>
service_states == <<"OK", "WARNING", "CRITICAL", "UNKNOWN">>
host_colors == <<"good", "danger", "#BC1414">>
service_colors == <<"good", "warning", "danger", "#E066FF">>
Reverse(enum, code) == enum[code + 1]
StatesOf(status_type) == IF status_type = "Host" THEN host_states ELSE service_states

yes_no(value) == IF value > 0 THEN "Yes" ELSE "No"

(* A monitoring object as the status commands read it *)
StatusObject(status_type, name, state, acknowledgement, downtime_depth) ==
    [name |-> name,
     host_name |-> IF status_type = "Service" THEN Some("h") ELSE None,
     state |-> state,
     acknowledgement |-> acknowledgement,
     downtime_depth |-> downtime_depth,
     last_check_result |-> [output |-> <<"output of", name>>],
     last_state_change |-> name]

(* the n objects a status query finds: the states, the acknowledgements   *)
(* and the downtimes vary along the list                                   *)
StatusResults(status_type, n) ==
    [i \in 1..n |->
        StatusObject(status_type, i, i % Len(StatesOf(status_type)), i % 2, (i \div 2) % 2)]

(* What get_i2_object answers to a status query: an error, a plain string *)
(* or a list of objects                                                    *)
StatusAnswerChoices ==
    { [kind |-> "error", n |-> 0], [kind |-> "string", n |-> 0] }
    \cup { [kind |-> "list", n |-> n] : n \in 0..MaxResults }

StatusAnswer(status_type, choice) ==
    IF choice.kind = "error"
    THEN [error |-> Some("request failed"), is_str |-> FALSE, response |-> <<>>]
    ELSE IF choice.kind = "string"
    THEN [error |-> None, is_str |-> TRUE, response |-> <<"a line of text">>]
    ELSE [error |-> None, is_str |-> FALSE,
          response |-> StatusResults(status_type, choice.n)]

NoStatusAnswer == [kind |-> "list", n |-> 0]

(* What get_i2_filter makes of the message: state predicates, names and   *)
(* the filter words it did not understand                                  *)
DefaultFilters == {"host.state != HostUP", "service.state != ServiceOK"}

FilterStatusChoices ==
    { <<>>,
      <<"host.state != HostUP">>,
      <<"service.state != ServiceOK">>,
      <<"host.state == HostDOWN">>,
      <<"host.state != HostUP", "host.state == HostDOWN">> }

FilterNamesChoices == { <<>>, <<"web01">>, <<"web01", "http">> }
FilterErrorChoices == { <<>>, <<"bogus">>, <<"bogus", "nope">> }

SlackResponse(text, blocks, attachments) ==
    [text |-> text, blocks |-> blocks, attachments |-> attachments]

(* lines 55-63, 71-79, 194-202, 209-217 *)
ErrorStatusResponse(text, block, error_text) ==
    SlackResponse(<<text>>, <<block>>,
                  <<[fallback |-> text, text |-> error_text, color |-> "danger"]>>)

(* lines 95-140: the card of one object *)
DetailCard(icinga_object) ==
    LET is_service == IsSet(icinga_object.host_name)
        host_name == IF is_service THEN Get(icinga_object.host_name)
                     ELSE icinga_object.name
        states == IF is_service THEN service_states ELSE host_states
        colors == IF is_service THEN service_colors ELSE host_colors
    IN [color |-> Reverse(colors, icinga_object.state),
        text |-> IF is_service THEN <<host_name, icinga_object.name>> ELSE <<host_name>>,
        fields |->
           << [title |-> "Output", value |-> icinga_object.last_check_result.output,
               short |-> FALSE],
              [title |-> "Last State Change",
               value |-> ts_to_date(icinga_object.last_state_change), short |-> TRUE],
              [title |-> "Status", value |-> Reverse(states, icinga_object.state),
               short |-> TRUE],
              [title |-> "Acknowledged", value |-> yes_no(icinga_object.acknowledgement),
               short |-> TRUE],
              [title |-> "In Downtime", value |-> yes_no(icinga_object.downtime_depth),
               short |-> TRUE] >>]

(* lines 90-91, 145-146 *)
FoundBlock(status_type, n) ==
    [block |-> "found", count |-> n, status_type |-> status_type]

(* line 150: the condensed list made by format_slack_response *)
CondensedBlock(status_type, objects) ==
    [block |-> "condensed", count |-> Len(objects), status_type |-> status_type]

(* Variant: the default predicate counts wherever it leads the list *)
IsProblematicFilterLeading(i2_filter_status) ==
    Len(i2_filter_status) >= 1 /\ i2_filter_status[1] \in DefaultFilters

(* lines 156-157 *)
IsProblematicFilter(i2_filter_status) ==
    Len(i2_filter_status) = 1 /\ i2_filter_status[1] \in DefaultFilters

(* lines 152-170: the text for an empty result *)
EmptyResultText(status_type, i2_filter_status, i2_filter_names) ==
    <<"No">>
    \o (IF IsProblematicFilter(i2_filter_status) THEN <<"problematic">> ELSE <<>>)
    \o <<status_type, "objects">>
    \o (IF Len(i2_filter_names) >= 1 THEN <<"for">> \o i2_filter_names ELSE <<>>)
    \o <<"found.">>
    \o (IF IsProblematicFilter(i2_filter_status)
        THEN <<"Everything seems in good condition.">> ELSE <<>>)

(* Variant: every result that is not empty is shown in detail *)
ShowsDetailsAlways(n) == n >= 1

(* line 87 *)
ShowsDetails(n) == n \in 1..max_messages_to_display_detailed_status

(* lines 38-172 *)
run_icinga_status_query(status_type, i2_filter_status, i2_filter_names, i2_filter_error, i2_response) ==
    IF Len(i2_filter_error) > 0
    THEN ErrorStatusResponse("Command error",
                             "I'm having trouble understanding what you meant",
                             <<"not valid", i2_filter_error, status_type>>)
    ELSE IF IsSet(i2_response.error)
    THEN ErrorStatusResponse("Icinga request error", "Icinga request error",
                             <<"Error:", Get(i2_response.error)>>)
    ELSE IF i2_response.is_str
    THEN SlackResponse(<<"Icinga status response">>, <<i2_response.response>>, <<>>)
    ELSE IF ShowsDetails(Len(i2_response.response))
    THEN SlackResponse(<<"Icinga status response">>,
                       <<FoundBlock(status_type, Len(i2_response.response))>>,
                       [i \in 1..Len(i2_response.response) |->
                           DetailCard(i2_response.response[i])])
    ELSE IF Len(i2_response.response) > 0
    THEN SlackResponse(<<"Icinga status response">>,
                       <<FoundBlock(status_type, Len(i2_response.response)),
                         CondensedBlock(status_type, i2_response.response)>>,
                       <<>>)
    ELSE SlackResponse(EmptyResultText(status_type, i2_filter_status, i2_filter_names),
                       <<>>, <<>>)

(* A status command arrives: "host status" or "service status" with what  *)
(* follows it.  The backend is asked only when the filter was understood  *)
(* (lines 43, 68).                                                         *)
StatusQuery ==
    /\ status.op = "none"
    /\ \E status_type \in StatusTypes :
       \E i2_filter_status \in FilterStatusChoices :
       \E i2_filter_names \in FilterNamesChoices :
       \E i2_filter_error \in FilterErrorChoices :
       \E choice \in IF Len(i2_filter_error) > 0 THEN {NoStatusAnswer}
                      ELSE StatusAnswerChoices :
       \E i2_response \in {StatusAnswer(status_type, choice)} :
           /\ status' = [op |-> "status",
                         status_type |-> status_type,
                         i2_filter_status |-> i2_filter_status,
                         i2_filter_names |-> i2_filter_names,
                         i2_filter_error |-> i2_filter_error,
                         queried |-> Len(i2_filter_error) = 0,
                         i2_response |-> i2_response,
                         response |-> run_icinga_status_query(
                                          status_type, i2_filter_status, i2_filter_names,
                                          i2_filter_error, i2_response)]
           /\ UNCHANGED <<conversations, now, turns, ticks, chat_user_id, chat_message,
                          before, parsed, response, calls, handled_at, backend, final,
                          inflight>>

----------------------------------------------------------------------------
(* get_icinga_status_overview *)

(* state, acknowledgement and downtime_depth of the objects counted *)
OverviewKinds ==
    { <<0, 0, 0>>, <<1, 0, 0>>, <<1, 1, 0>>, <<2, 0, 1>>, <<2, 2, 2>> }

OverviewObject(status_type, kind) ==
    StatusObject(status_type, "o", kind[1], kind[2], kind[3])

OverviewLists(status_type) ==
    UNION { [1..n -> {OverviewObject(status_type, kind) : kind \in OverviewKinds}] :
              n \in 0..MaxObjects }

OverviewAnswers(status_type) ==
    {[error |-> Some("request failed"), response |-> <<>>]}
    \cup {[error |-> None, response |-> objects] : objects \in OverviewLists(status_type)}

(* Variant: an object in a downtime still counts as unhandled *)
IsUnhandledDespiteDowntime(icinga_object) ==
    /\ icinga_object.state > 0
    /\ icinga_object.acknowledgement = 0

(* lines 249-251, 264-266 *)
IsUnhandled(icinga_object) ==
    /\ icinga_object.state > 0
    /\ icinga_object.acknowledgement = 0
    /\ icinga_object.downtime_depth = 0

(* lines 220-267: the counts of one object type *)
CountObjects(status_type, objects) ==
    [states |-> [code \in 0..(Len(StatesOf(status_type)) - 1) |->
                    Cardinality({i \in 1..Len(objects) : objects[i].state = code})],
     UNHANDLED |-> Cardinality({i \in 1..Len(objects) : IsUnhandled(objects[i])}),
     ACKNOWLEDGED |->
         Cardinality({i \in 1..Len(objects) : objects[i].acknowledgement > 0}),
     IN_DOWNTIME |->
         Cardinality({i \in 1..Len(objects) : objects[i].downtime_depth > 0})]

(* lines 270-273, 289-291, 311-313: a number of problems, "no" for none *)
Unhandled(n, what) == [shown |-> IF n = 0 THEN "no" ELSE "number", count |-> n, what |-> what]

(* lines 276-295, 298-317: the attachment of one object type *)
OverviewAttachment(status_type, count) ==
    [fallback |-> IF status_type = "Host" THEN "Host status" ELSE "Service status",
     text |-> Unhandled(count.UNHANDLED,
                        IF status_type = "Host" THEN "unhandled host" ELSE "unhandled service"),
     color |-> IF count.UNHANDLED = 0 THEN "good" ELSE "danger",
     fields |-> [states |-> [code \in DOMAIN count.states |->
                                [title |-> Reverse(StatesOf(status_type), code),
                                 value |-> count.states[code], short |-> TRUE]],
                 ACKNOWLEDGED |-> count.ACKNOWLEDGED,
                 IN_DOWNTIME |-> count.IN_DOWNTIME]]

(* lines 188-319 *)
get_icinga_status_overview(i2_host_response, i2_service_response) ==
    IF IsSet(i2_host_response.error)
    THEN ErrorStatusResponse("Icinga request error", "Icinga request error",
                             <<"Error:", Get(i2_host_response.error)>>)
    ELSE IF IsSet(i2_service_response.error)
    THEN ErrorStatusResponse("Icinga request error", "Icinga request error",
                             <<"Error:", Get(i2_service_response.error)>>)
    ELSE LET host_count == CountObjects("Host", i2_host_response.response)
             service_count == CountObjects("Service", i2_service_response.response)
         IN SlackResponse(
                <<"Status Overview">>,
                <<Unhandled(host_count.UNHANDLED + service_count.UNHANDLED,
                            "unhandled problem")>>,
                <<OverviewAttachment("Host", host_count),
                  OverviewAttachment("Service", service_count)>>)

(* The "status overview" command arrives.  Services are asked for only    *)
(* when the hosts were answered (lines 193-206).                           *)
StatusOverview ==
    /\ status.op = "none"
    /\ \E i2_host_response \in OverviewAnswers("Host") :
       \E i2_service_response \in IF IsSet(i2_host_response.error)
                                   THEN {[error |-> None, response |-> <<>>]}
                                   ELSE OverviewAnswers("Service") :
           /\ status' = [op |-> "overview",
                         i2_host_response |-> i2_host_response,
                         i2_service_response |-> i2_service_response,
                         response |-> get_icinga_status_overview(i2_host_response,
                                                                 i2_service_response)]
           /\ UNCHANGED <<conversations, now, turns, ticks, chat_user_id, chat_message,
                          before, parsed, response, calls, handled_at, backend, final,
                          inflight>>

StatusNext ==
    \/ StatusQuery
    \/ StatusOverview

StatusSpec == Init /\ [][StatusNext]_vars

----------------------------------------------------------------------------
(* a status query came back with a list of objects *)
ListAnswered ==
    /\ status.op = "status"
    /\ status.queried
    /\ status.i2_response.error = None
    /\ ~status.i2_response.is_str

Cards(resp) ==
    {i \in 1..Len(resp.attachments) : "fields" \in DOMAIN resp.attachments[i]}

CondensedBlocks(resp) ==
    {i \in 1..Len(resp.blocks) : resp.blocks[i].block = "condensed"}

(* C24: a status query that finds N objects answers with exactly N cards, *)
(* one per object and in the order of the result, when N is 1 to 4; when  *)
(* N is greater than 4 it answers with no card and one condensed block.    *)
C24_CardsUpToThreshold ==
    ListAnswered =>
        LET objects == status.i2_response.response
            N == Len(objects)
            resp == status.response
        IN /\ (1 <= N /\ N <= 4) =>
                 /\ Len(resp.attachments) = N
                 /\ Cardinality(Cards(resp)) = N
                 /\ \A i \in 1..N : resp.attachments[i] = DetailCard(objects[i])
                 /\ CondensedBlocks(resp) = {}
           /\ N > 4 =>
                 /\ resp.attachments = <<>>
                 /\ Cardinality(CondensedBlocks(resp)) = 1

C24_Witness ==
    /\ ListAnswered
    /\ Len(status.i2_response.response) = 5
    /\ status.response.attachments = <<>>
    /\ Cardinality(CondensedBlocks(status.response)) = 1

----------------------------------------------------------------------------
GoodCondition == "Everything seems in good condition."

(* C25: the answer to a status query without results says "Everything     *)
(* seems in good condition" exactly when the list of state predicates is  *)
(* the one default predicate; with no predicate, another one or more than *)
(* one it does not.                                                        *)
C25_GoodConditionOnlyForDefault ==
    (ListAnswered /\ status.i2_response.response = <<>>) =>
        (Contains(status.response.text, GoodCondition)
            <=> status.i2_filter_status \in {<<f>> : f \in DefaultFilters})

C25_Witness ==
    /\ ListAnswered
    /\ status.i2_response.response = <<>>
    /\ Len(status.i2_filter_status) = 2
    /\ status.i2_filter_status[1] \in DefaultFilters
    /\ ~Contains(status.response.text, GoodCondition)

----------------------------------------------------------------------------
(* the overview came back with the counts *)
Counted ==
    /\ status.op = "overview"
    /\ status.i2_host_response.error = None
    /\ status.i2_service_response.error = None

UnhandledIn(objects) ==
    Cardinality({i \in 1..Len(objects) :
                    /\ objects[i].state > 0
                    /\ objects[i].acknowledgement = 0
                    /\ objects[i].downtime_depth = 0})

(* C28: in the overview the unhandled hosts are the hosts with a state    *)
(* above 0, no acknowledgement and no downtime, likewise the unhandled    *)
(* services; the summary line gives the sum of the two, and the           *)
(* attachment of an object type is "good" exactly when its count is 0.     *)
C28_UnhandledCounts ==
    Counted =>
        LET resp == status.response
            hosts == UnhandledIn(status.i2_host_response.response)
            services == UnhandledIn(status.i2_service_response.response)
        IN /\ Len(resp.attachments) = 2
           /\ resp.attachments[1].text.count = hosts
           /\ resp.attachments[2].text.count = services
           /\ resp.blocks[1].count = hosts + services
           /\ resp.attachments[1].color = "good" <=> hosts = 0
           /\ resp.attachments[2].color = "good" <=> services = 0
           /\ \A i \in 1..2 : resp.attachments[i].color \in {"good", "danger"}

C28_Witness ==
    /\ Counted
    /\ UnhandledIn(status.i2_host_response.response) = 0
    /\ Len(status.i2_host_response.response) = 2
    /\ \A i \in 1..2 : status.i2_host_response.response[i].state > 0
    /\ UnhandledIn(status.i2_service_response.response) = 1
    /\ status.response.attachments[1].color = "good"
    /\ status.response.attachments[2].color = "danger"

----------------------------------------------------------------------------
(* the message is a command word and nothing else *)
CommandWordOnly == Len(chat_message) = 1 /\ chat_message[1] \in AckWords \cup DowntimeWords

(* the question for the filter (lines 592-595) *)
FilterQuestion(command) ==
    IF command = "ACK" THEN "What do you want acknowledge?"
    ELSE "What do you want to set a downtime for?"

(* C26: a first message that is only a command word, from a user without  *)
(* a conversation, creates a conversation with that command and nothing   *)
(* else set, makes no backend query and is answered with the question for *)
(* the filter.                                                             *)
C26_CommandWordStartsConversation ==
    (CommandWordOnly /\ before = None) =>
        LET command == IF chat_message[1] \in AckWords THEN "ACK" ELSE "DOWNTIME"
        IN /\ Entry = Some([SlackConversation EXCEPT !.command = command])
           /\ calls = <<>>
           /\ response.kind = "ask_filter"
           /\ response.text = FilterQuestion(command)

C26_Witness ==
    /\ CommandWordOnly /\ before = None
    /\ chat_message[1] \in DowntimeWords
    /\ chat_user_id = "U2"
    /\ IsSet(conversations["U1"])
    /\ Get(Entry).command = "DOWNTIME"
    /\ Get(Entry).filter = None
    /\ response.text = "What do you want to set a downtime for?"

----------------------------------------------------------------------------
(* the message reads <command> <filter> from <start> until <end> <text>,  *)
(* the command being a downtime and both dates being date expressions     *)
FullDowntimeMessage ==
    /\ Len(chat_message) = 7
    /\ chat_message[1] \in DowntimeWords
    /\ chat_message[2] \notin ReservedWords
    /\ chat_message[3] = "from"
    /\ chat_message[4] \in DateWords
    /\ chat_message[5] = "until"
    /\ chat_message[6] \in DateWords
    /\ chat_message[7] \notin ReservedWords

(* the backend answered the queries and holds an object for the filter *)
ObjectsFound ==
    /\ ~QueryFailed
    /\ backend.host.matching # <<>> \/ backend.service.matching # <<>>

(* C27: a first message <command> <filter> from <start> until <end>       *)
(* <description> for a downtime, whose filter finds an object and whose   *)
(* dates pass the checks, fills filter (the one word before "from"),      *)
(* start_date, end_date and description (the text after the end date) in  *)
(* that handling and is answered with the confirmation summary.            *)
C27_DowntimeInOneMessage ==
    (Handled /\ before = None /\ FullDowntimeMessage /\ ObjectsFound
        /\ DateOffset(chat_message[4]) <= DateOffset(chat_message[6])
        /\ ~EndDateRejected(handled_at + DateOffset(chat_message[6]), handled_at))
    => /\ IsSet(final) /\ Entry = final
       /\ LET c == Get(final)
          IN /\ c.command = "DOWNTIME"
             /\ c.filter = Some(<<chat_message[2]>>)
             /\ IsSet(c.filter_result)
             /\ c.start_date = Some(handled_at + DateOffset(chat_message[4]))
             /\ c.end_date = Some(handled_at + DateOffset(chat_message[6]))
             /\ c.description = Some(<<chat_message[7]>>)
             /\ c.confirmation_sent /\ ~c.confirmed /\ ~c.canceled
             /\ response.kind = "confirm"
             /\ response.detail = Some(Confirmation(c))
             /\ Len(Get(response.detail).Objects) = Len(Get(c.filter_result))
       /\ Mutations(calls) = <<>>

C27_Witness ==
    /\ Handled /\ before = None /\ FullDowntimeMessage /\ ObjectsFound
    /\ response.kind = "confirm"
    /\ Get(response.detail).Command = "Downtime"
    /\ Get(response.detail).Comment = <<chat_message[7]>>
    /\ Get(Entry).start_date = Some(handled_at + Grace)
    /\ Get(Entry).end_date = Some(handled_at + 2 * Grace)

----------------------------------------------------------------------------
(* the handling failed to parse a date and asks for it again *)
DateParsingFailed ==
    /\ Handled /\ IsSet(final)
    /\ response.kind \in {"start_failed", "end_failed"}
    /\ \/ Get(final).start_date_parsing_failed # Before.start_date_parsing_failed
       \/ Get(final).end_date_parsing_failed # Before.end_date_parsing_failed

(* C29: the text of a date that could not be parsed is recorded as the    *)
(* failed date text only: a description that was unset before the message *)
(* is still unset when the date is asked for again.                        *)
C29_FailedDateTextIsNoDescription ==
    (DateParsingFailed /\ Before.description = None) =>
        Get(final).description = None

----------------------------------------------------------------------------
(* C30: a dispatched action carries the values of the confirmation        *)
(* summary sent last: the conversation that arrives at the handling that  *)
(* dispatches is waiting for the answer, and its filter_result,           *)
(* start_date, end_date and description are those the mutation call is    *)
(* made with.                                                              *)
C30_DispatchCarriesSummary ==
    (Handled /\ Mutations(calls) # <<>>) =>
        /\ IsSet(before) /\ IsSet(final)
        /\ Get(before).confirmation_sent
        /\ Get(final).filter_result = Get(before).filter_result
        /\ Get(final).start_date = Get(before).start_date
        /\ Get(final).end_date = Get(before).end_date
        /\ Get(final).description = Get(before).description
        /\ Mutations(calls)[1] = MutationCall(Get(before))

----------------------------------------------------------------------------
(* C31: whatever the words of the message and whatever the conversation,  *)
(* the handling ends with a response or with the 'not recognized' outcome *)
(* and never raises by reading the first word of an empty word list, a    *)
(* message that ends in 'until' or 'from' included.                        *)
C31_NeverFailsOnEmptyBuffer ==
    Handled => response.kind # "exception"

----------------------------------------------------------------------------
(* C32: the handling of a message of one user reads and writes only that  *)
(* user's entry of the store: in every step, whatever the order in which  *)
(* the messages of the two users are handled, the entry of every other    *)
(* user stays as it is, present or absent and with all its fields, and    *)
(* the store holds at most one conversation for a user.                    *)
OtherUsers == UserIds \ {chat_user_id}

AtMostOneEntry(store) ==
    /\ DOMAIN store = UserIds
    /\ \A u \in UserIds : Len(store[u]) <= 1

C32_OnlyOwnEntryTouched ==
    [][/\ \A u \in UserIds \ {chat_user_id'} : conversations'[u] = conversations[u]
       /\ AtMostOneEntry(conversations')]_vars

(* the second user ends a conversation of their own while the first       *)
(* user's conversation waits for the confirmation                          *)
C32_Witness ==
    /\ Handled
    /\ chat_user_id = "U2"
    /\ IsSet(before)
    /\ conversations["U2"] = None
    /\ response.kind = "canceled"
    /\ \A u \in OtherUsers :
          /\ IsSet(conversations[u])
          /\ Get(conversations[u]).confirmation_sent

====
